---------------------------- MODULE Spec2Model ----------------------------
(***************************************************************************)
(* configdot: INI-like configuration files parsed into nested              *)
(* ConfigContainer / ConfigItem objects (src/configdot/configdot.py), and  *)
(* the parser, the merge (update_config) and the serializer (dump_config)  *)
(* of src/configdot/utils.py.                                              *)
(*                                                                         *)
(* Python strings are sequences of one-character strings, so that the      *)
(* regular expressions, split, join and strip are computed on the text.    *)
(* Python objects live in a heap (a sequence of nodes, a reference is an   *)
(* index), so that identity, replacement and detached sections are kept.   *)
(***************************************************************************)
EXTENDS Integers, Sequences, FiniteSets, TLC

VARIABLES
    pst,            \* _parse_config_lines: its locals after the lines read so far
    lines,          \* the lines read so far
    parsed,         \* outcome of _parse_config_lines: "running" | "returned" | "raised"
    cycle,          \* outcome of the write/read cycle on the returned tree
    heap,           \* update_config: the objects of both configs
    cfg_to_update,  \* reference of the root of the config to update
    cfg_new,        \* reference of the root of the config with the new data
    before,         \* the heap just before the last update_config call
    call,           \* arguments of the last update_config call
    outcome,        \* "idle" | "returned" | "TypeError_args" | "TypeError_subscript"
    assign,         \* the last assignment section.attr = value, and the heap before it
    again           \* a repeated update_config call: its outcome, and the heap before it

vars ==
    <<pst, lines, parsed, cycle, heap, cfg_to_update, cfg_new, before, call, outcome, assign,
      again>>

parseVars == <<pst, lines, parsed, cycle>>
updateVars == <<heap, cfg_to_update, cfg_new, before, call, outcome, assign, again>>

-----------------------------------------------------------------------------
(* Strings *)

WhiteSpace == {" ", "\t"}
WordChars ==
    {"a", "b", "c", "e", "f", "i", "l", "m", "n", "o", "s", "t", "u", "v", "x", "y", "_",
     "1", "2", "9"}

RECURSIVE SkipWhile(_, _, _)
\* index of the first character of s at or after i that is not in set (Len(s)+1 if none)
SkipWhile(s, i, set) ==
    IF i <= Len(s) /\ s[i] \in set THEN SkipWhile(s, i + 1, set) ELSE i

RECURSIVE RSkipWhile(_, _, _)
\* index of the last character of s at or before i that is not in set (0 if none)
RSkipWhile(s, i, set) ==
    IF i >= 1 /\ s[i] \in set THEN RSkipWhile(s, i - 1, set) ELSE i

\* str.strip()
Strip(s) ==
    SubSeq(s, SkipWhile(s, 1, WhiteSpace), RSkipWhile(s, Len(s), WhiteSpace))

RECURSIVE Join(_, _)
\* sep.join(parts)
Join(parts, sep) ==
    IF Len(parts) = 0 THEN <<>>
    ELSE IF Len(parts) = 1 THEN parts[1]
    ELSE parts[1] \o sep \o Join(Tail(parts), sep)

RECURSIVE Find(_, _, _)
\* index of the first occurrence of the character c in s at or after i (Len(s)+1 if none)
Find(s, i, c) ==
    IF i <= Len(s) /\ s[i] # c THEN Find(s, i + 1, c) ELSE i

RECURSIVE Split(_, _)
\* s.split(c) for a one-character separator c
Split(s, c) ==
    LET i == Find(s, 1, c)
    IN  IF i > Len(s) THEN <<s>>
        ELSE <<SubSeq(s, 1, i - 1)>> \o Split(SubSeq(s, i + 1, Len(s)), c)

\* s.count(c)
Count(s, c) == Cardinality({i \in 1..Len(s) : s[i] = c})

\* c * n
Repeat(c, n) == [i \in 1..n |-> c]


-----------------------------------------------------------------------------
(* Line patterns (utils.py, RE_SECTION_HEADER, RE_COMMENT, RE_WHITESPACE,  *)
(* RE_ITEM_DEF).  Each pattern is matched from the start of the line, left *)
(* to right; none of them needs backtracking, because adjacent groups      *)
(* match disjoint character classes.                                       *)

NoHeader == [ok |-> FALSE, secname |-> <<>>, sec_level |-> 0]

\* variant: the bracket counts are not compared
_parse_section_header_AnyBrackets(s) ==
    LET a == SkipWhile(s, 1, WhiteSpace)
        b == SkipWhile(s, a, {"["})
        c == SkipWhile(s, b, WordChars \cup {"-"})
        d == SkipWhile(s, c, {"]"})
        e == SkipWhile(s, d, WhiteSpace)
    IN  IF b > a /\ c > b /\ d > c /\ e > Len(s)
        THEN [ok |-> TRUE, secname |-> SubSeq(s, b, c - 1), sec_level |-> b - a]
        ELSE NoHeader

\* \s*(\[+)([\w-]+)(\]+)\s*$ and the comparison of the bracket counts
_parse_section_header(s) ==
    LET a == SkipWhile(s, 1, WhiteSpace)
        b == SkipWhile(s, a, {"["})
        c == SkipWhile(s, b, WordChars \cup {"-"})
        d == SkipWhile(s, c, {"]"})
        e == SkipWhile(s, d, WhiteSpace)
    IN  IF b > a /\ c > b /\ d > c /\ e > Len(s) /\ b - a = d - c
        THEN [ok |-> TRUE, secname |-> SubSeq(s, b, c - 1), sec_level |-> b - a]
        ELSE NoHeader

\* \s*[#;]\s*(.*) : group 1
RE_COMMENT(s) ==
    LET a == SkipWhile(s, 1, WhiteSpace)
    IN  IF a <= Len(s) /\ s[a] \in {"#", ";"}
        THEN [ok |-> TRUE, cmnt |-> SubSeq(s, SkipWhile(s, a + 1, WhiteSpace), Len(s))]
        ELSE [ok |-> FALSE, cmnt |-> <<>>]

\* \s*$
RE_WHITESPACE(s) == SkipWhile(s, 1, WhiteSpace) > Len(s)

\* \s*(\w+)\s*=\s*(.*?)\s*$ : groups 1 and 2
_parse_item_def(s) ==
    LET a == SkipWhile(s, 1, WhiteSpace)
        b == SkipWhile(s, a, WordChars)
        c == SkipWhile(s, b, WhiteSpace)
        d == SkipWhile(s, c + 1, WhiteSpace)
        e == RSkipWhile(s, Len(s), WhiteSpace)
    IN  IF b > a /\ c <= Len(s) /\ s[c] = "="
        THEN [ok |-> TRUE, varname |-> SubSeq(s, a, b - 1),
              val |-> IF d <= e THEN SubSeq(s, d, e) ELSE <<>>]
        ELSE [ok |-> FALSE, varname |-> <<>>, val |-> <<>>]

-----------------------------------------------------------------------------
(* Values.  ast.literal_eval and pprint.pformat on the literals the model  *)
(* uses: the integers 1 and 2, the float written 1e999 (which evaluates to *)
(* infinity and is printed "inf") and the lists [1, 2] and [1, -2].        *)

Values == {"int1", "int2", "inf", "list12", "list1m2"}

\* ast.literal_eval(text): the value, or ok = FALSE for ValueError / SyntaxError
literal_eval(text) ==
    LET s == Strip(text)
    IN  IF s = <<"1">> THEN [ok |-> TRUE, value |-> "int1"]
        ELSE IF s = <<"2">> THEN [ok |-> TRUE, value |-> "int2"]
        ELSE IF s = <<"1", "e", "9", "9", "9">> THEN [ok |-> TRUE, value |-> "inf"]
        ELSE IF s \in {<<"[", "1", ",", "2", "]">>, <<"[", "1", ",", " ", "2", "]">>}
             THEN [ok |-> TRUE, value |-> "list12"]
        ELSE IF s \in {<<"[", "1", ",", "-", "2", "]">>, <<"[", "1", ",", " ", "-", "2", "]">>}
             THEN [ok |-> TRUE, value |-> "list1m2"]
        ELSE [ok |-> FALSE, value |-> "none"]

\* pprint.pformat(value)
pformat(value) ==
    CASE value = "int1" -> <<"1">>
      [] value = "int2" -> <<"2">>
      [] value = "inf" -> <<"i", "n", "f">>
      [] value = "list12" -> <<"[", "1", ",", " ", "2", "]">>
      [] value = "list1m2" -> <<"[", "1", ",", " ", "-", "2", "]">>

-----------------------------------------------------------------------------
(* Objects (configdot.py).  A node is a ConfigItem or a ConfigContainer;   *)
(* _items is the dict of a container, in insertion order.                  *)

ConfigItem(name, value, comment) ==
    [kind |-> "Item", name |-> name, value |-> value, comment |-> comment, items |-> <<>>]

ConfigContainer(comment) ==
    [kind |-> "Container", name |-> <<>>, value |-> "none", comment |-> comment, items |-> <<>>]

\* key in d
DictHas(d, key) == \E i \in 1..Len(d) : d[i].key = key

\* d[key], for a key of d
DictGet(d, key) == d[CHOOSE i \in 1..Len(d) : d[i].key = key].ref

\* d[key] = ref : an existing key keeps its position, a new key goes last
DictSet(d, key, ref) ==
    IF DictHas(d, key)
    THEN [i \in 1..Len(d) |-> IF d[i].key = key THEN [key |-> key, ref |-> ref] ELSE d[i]]
    ELSE Append(d, [key |-> key, ref |-> ref])

\* item in self
__contains__(h, self, item) == DictHas(h[self].items, item)

\* ConfigContainer.__setattr__ with a ConfigItem or ConfigContainer value
__setattr__object(h, self, attr, value) ==
    [h EXCEPT ![self].items = DictSet(h[self].items, attr, value)]

\* the attribute names '_comment' and 'value'
CommentAttr == <<"_", "c", "o", "m", "m", "e", "n", "t">>
ValueAttr == <<"v", "a", "l", "u", "e">>

RECURSIVE __setattr__(_, _, _, _)
\* ConfigContainer.__setattr__ with a value that is neither a ConfigItem nor a
\* ConfigContainer.  self._items[attr].value = value on an entry that is itself
\* a ConfigContainer is the __setattr__ of that container, for the name 'value'.
__setattr__(h, self, attr, value) ==
    IF attr = CommentAttr
    THEN [h EXCEPT ![self].comment = value]
    ELSE IF DictHas(h[self].items, attr)
    THEN
        LET entry == DictGet(h[self].items, attr)
        IN  IF h[entry].kind = "Item"
            THEN [h EXCEPT ![entry].value = value]
            ELSE __setattr__(h, entry, ValueAttr, value)
    ELSE __setattr__object(Append(h, ConfigItem(attr, value, <<>>)), self, attr, Len(h) + 1)


-----------------------------------------------------------------------------
(* _parse_config_lines (utils.py).  The record holds the locals of the     *)
(* function; None is 0 for current_section and the empty string for        *)
(* current_item_name (item names are never empty, so truthiness agrees).   *)

ParseStart ==
    [heap |-> <<ConfigContainer(<<>>)>>,
     config |-> 1,
     sections |-> <<[sec |-> 1, level |-> 0]>>,
     current_section |-> 0,
     current_item_name |-> <<>>,
     comment_lines |-> <<>>,
     current_def_lines |-> <<>>,
     lnum |-> 0,
     error |-> "none",
     li |-> <<>>]

\* raise ValueError(... line {lnum}); the field li is the line text that the
\* message of a syntax error carries after the line number
RaiseAt(st, lnum, what) == [st EXCEPT !.lnum = lnum, !.error = what]

\* variant: the parent is the first section of the level above, not the latest
SectionHeaderLine_FirstParent(st, lnum, sec_def) ==
    IF st.current_item_name # <<>>
    THEN RaiseAt(st, lnum, "could not evaluate definition")
    ELSE
        LET comment == Join(st.comment_lines, <<"\n">>)
            current_section == Len(st.heap) + 1
            h1 == Append(st.heap, ConfigContainer(comment))
            sections == Append(st.sections,
                               [sec |-> current_section, level |-> sec_def.sec_level])
            parents == SelectSeq(sections, LAMBDA p : p.level = sec_def.sec_level - 1)
        IN  IF Len(parents) = 0
            THEN RaiseAt(st, lnum, "subsection outside a parent section")
            ELSE [st EXCEPT
                    !.heap = __setattr__object(h1, parents[1].sec,
                                               sec_def.secname, current_section),
                    !.sections = sections,
                    !.current_section = current_section,
                    !.comment_lines = <<>>,
                    !.lnum = lnum]

\* variant: a header without a section one level up is attached to the root
SectionHeaderLine_RootParent(st, lnum, sec_def) ==
    IF st.current_item_name # <<>>
    THEN RaiseAt(st, lnum, "could not evaluate definition")
    ELSE
        LET comment == Join(st.comment_lines, <<"\n">>)
            current_section == Len(st.heap) + 1
            h1 == Append(st.heap, ConfigContainer(comment))
            sections == Append(st.sections,
                               [sec |-> current_section, level |-> sec_def.sec_level])
            parents == SelectSeq(sections, LAMBDA p : p.level = sec_def.sec_level - 1)
            latest_parent == IF Len(parents) = 0 THEN st.config ELSE parents[Len(parents)].sec
        IN  [st EXCEPT
                !.heap = __setattr__object(h1, latest_parent, sec_def.secname, current_section),
                !.sections = sections,
                !.current_section = current_section,
                !.comment_lines = <<>>,
                !.lnum = lnum]

\* the branch of a section header
SectionHeaderLine(st, lnum, sec_def) ==
    IF st.current_item_name # <<>>
    THEN RaiseAt(st, lnum, "could not evaluate definition")
    ELSE
        LET comment == Join(st.comment_lines, <<"\n">>)
            current_section == Len(st.heap) + 1
            h1 == Append(st.heap, ConfigContainer(comment))
            sections == Append(st.sections,
                               [sec |-> current_section, level |-> sec_def.sec_level])
            parents == SelectSeq(sections, LAMBDA p : p.level = sec_def.sec_level - 1)
        IN  IF Len(parents) = 0
            THEN RaiseAt(st, lnum, "subsection outside a parent section")
            ELSE [st EXCEPT
                    !.heap = __setattr__object(h1, parents[Len(parents)].sec,
                                               sec_def.secname, current_section),
                    !.sections = sections,
                    !.current_section = current_section,
                    !.comment_lines = <<>>,
                    !.lnum = lnum]

\* the branch of a comment line
CommentLine(st, lnum, li) ==
    IF st.current_item_name # <<>>
    THEN RaiseAt(st, lnum, "could not evaluate definition")
    ELSE [st EXCEPT !.comment_lines = Append(@, RE_COMMENT(li).cmnt), !.lnum = lnum]

\* variant: a blank line is skipped also while a definition is pending
BlankLine_Lenient(st, lnum) == [st EXCEPT !.lnum = lnum]

\* the branch of a blank line
BlankLine(st, lnum) ==
    IF st.current_item_name # <<>>
    THEN RaiseAt(st, lnum, "could not evaluate definition")
    ELSE [st EXCEPT !.lnum = lnum]

\* variant: without an open section the item goes into the root container
ItemDefLine_RootFallback(st, lnum, item_def) ==
    LET section == IF st.current_section = 0 THEN st.config ELSE st.current_section
    IN  IF st.current_item_name # <<>>
        THEN RaiseAt(st, lnum, "could not evaluate definition")
        ELSE IF __contains__(st.heap, section, item_def.varname)
        THEN RaiseAt(st, lnum, "duplicate definition")
        ELSE
            LET val_eval == literal_eval(item_def.val)
                comment == Join(st.comment_lines, <<"\n">>)
                item == Len(st.heap) + 1
                h1 == Append(st.heap, ConfigItem(item_def.varname, val_eval.value, comment))
            IN  IF val_eval.ok
                THEN [st EXCEPT
                        !.heap = __setattr__object(h1, section, item_def.varname, item),
                        !.current_section = section,
                        !.comment_lines = <<>>,
                        !.current_def_lines = <<>>,
                        !.current_item_name = <<>>,
                        !.lnum = lnum]
                ELSE [st EXCEPT
                        !.current_section = section,
                        !.current_item_name = item_def.varname,
                        !.current_def_lines = Append(@, item_def.val),
                        !.lnum = lnum]

\* variant: a name that the section already has is not refused
ItemDefLine_NoDuplicateCheck(st, lnum, item_def) ==
    IF st.current_item_name # <<>>
    THEN RaiseAt(st, lnum, "could not evaluate definition")
    ELSE IF st.current_section = 0
    THEN RaiseAt(st, lnum, "item definition outside of a section")
    ELSE
        LET val_eval == literal_eval(item_def.val)
            comment == Join(st.comment_lines, <<"\n">>)
            item == Len(st.heap) + 1
            h1 == Append(st.heap, ConfigItem(item_def.varname, val_eval.value, comment))
        IN  IF val_eval.ok
            THEN [st EXCEPT
                    !.heap = __setattr__object(h1, st.current_section, item_def.varname, item),
                    !.comment_lines = <<>>,
                    !.current_def_lines = <<>>,
                    !.current_item_name = <<>>,
                    !.lnum = lnum]
            ELSE [st EXCEPT
                    !.current_item_name = item_def.varname,
                    !.current_def_lines = Append(@, item_def.val),
                    !.lnum = lnum]

\* the branch of a new item definition
\* variant: an item whose value text does not evaluate yet is stored at once,
\* without a value, and completed later
ItemDefLine_EagerItem(st, lnum, item_def) ==
    IF st.current_item_name # <<>>
    THEN RaiseAt(st, lnum, "could not evaluate definition")
    ELSE IF st.current_section = 0
    THEN RaiseAt(st, lnum, "item definition outside of a section")
    ELSE IF __contains__(st.heap, st.current_section, item_def.varname)
    THEN RaiseAt(st, lnum, "duplicate definition")
    ELSE
        LET val_eval == literal_eval(item_def.val)
            comment == Join(st.comment_lines, <<"\n">>)
            item == Len(st.heap) + 1
            h1 == Append(st.heap, ConfigItem(item_def.varname, val_eval.value, comment))
            stored == __setattr__object(h1, st.current_section, item_def.varname, item)
        IN  IF val_eval.ok
            THEN [st EXCEPT
                    !.heap = stored,
                    !.comment_lines = <<>>,
                    !.current_def_lines = <<>>,
                    !.current_item_name = <<>>,
                    !.lnum = lnum]
            ELSE [st EXCEPT
                    !.heap = stored,
                    !.current_item_name = item_def.varname,
                    !.current_def_lines = Append(@, item_def.val),
                    !.lnum = lnum]

ItemDefLine(st, lnum, item_def) ==
    IF st.current_item_name # <<>>
    THEN RaiseAt(st, lnum, "could not evaluate definition")
    ELSE IF st.current_section = 0
    THEN RaiseAt(st, lnum, "item definition outside of a section")
    ELSE IF __contains__(st.heap, st.current_section, item_def.varname)
    THEN RaiseAt(st, lnum, "duplicate definition")
    ELSE
        LET val_eval == literal_eval(item_def.val)
            comment == Join(st.comment_lines, <<"\n">>)
            item == Len(st.heap) + 1
            h1 == Append(st.heap, ConfigItem(item_def.varname, val_eval.value, comment))
        IN  IF val_eval.ok
            THEN [st EXCEPT
                    !.heap = __setattr__object(h1, st.current_section, item_def.varname, item),
                    !.comment_lines = <<>>,
                    !.current_def_lines = <<>>,
                    !.current_item_name = <<>>,
                    !.lnum = lnum]
            ELSE [st EXCEPT
                    !.current_item_name = item_def.varname,
                    !.current_def_lines = Append(@, item_def.val),
                    !.lnum = lnum]

\* variant: a completed continuation leaves the definition pending
ContinuationLine_StaysPending(st, lnum, li) ==
    IF st.current_item_name = <<>>
    THEN [RaiseAt(st, lnum, "syntax error") EXCEPT !.li = li]
    ELSE
        LET def_lines == Append(st.current_def_lines, Strip(li))
            val_new == Join(def_lines, <<>>)
            val_eval == literal_eval(val_new)
            comment == Join(st.comment_lines, <<" ">>)
            item == Len(st.heap) + 1
            h1 == Append(st.heap, ConfigItem(st.current_item_name, val_eval.value, comment))
        IN  IF val_eval.ok
            THEN [st EXCEPT
                    !.heap = __setattr__object(h1, st.current_section,
                                               st.current_item_name, item),
                    !.comment_lines = <<>>,
                    !.current_def_lines = def_lines,
                    !.lnum = lnum]
            ELSE [st EXCEPT !.current_def_lines = def_lines, !.lnum = lnum]

\* the else branch: a continuation of a definition, or a syntax error
ContinuationLine(st, lnum, li) ==
    IF st.current_item_name = <<>>
    THEN [RaiseAt(st, lnum, "syntax error") EXCEPT !.li = li]
    ELSE
        LET def_lines == Append(st.current_def_lines, Strip(li))
            val_new == Join(def_lines, <<>>)
            val_eval == literal_eval(val_new)
            comment == Join(st.comment_lines, <<" ">>)
            item == Len(st.heap) + 1
            h1 == Append(st.heap, ConfigItem(st.current_item_name, val_eval.value, comment))
        IN  IF val_eval.ok
            THEN [st EXCEPT
                    !.heap = __setattr__object(h1, st.current_section,
                                               st.current_item_name, item),
                    !.comment_lines = <<>>,
                    !.current_def_lines = <<>>,
                    !.current_item_name = <<>>,
                    !.lnum = lnum]
            ELSE [st EXCEPT !.current_def_lines = def_lines, !.lnum = lnum]

\* one iteration of the loop over the lines
ParseLine(st, li) ==
    LET lnum == st.lnum + 1
        sec_def == _parse_section_header(li)
        item_def == _parse_item_def(li)
    IN  IF sec_def.ok THEN SectionHeaderLine(st, lnum, sec_def)
        ELSE IF RE_COMMENT(li).ok THEN CommentLine(st, lnum, li)
        ELSE IF RE_WHITESPACE(li) THEN BlankLine(st, lnum)
        ELSE IF item_def.ok THEN ItemDefLine(st, lnum, item_def)
        ELSE ContinuationLine(st, lnum, li)

\* after the loop: a definition still pending is an error, else config is returned
ParseEnd(st) ==
    IF st.current_item_name # <<>>
    THEN RaiseAt(st, st.lnum, "could not evaluate definition")
    ELSE st

RECURSIVE ParseLoop(_, _)
ParseLoop(st, ls) ==
    IF ls = <<>> \/ st.error # "none" THEN st
    ELSE ParseLoop(ParseLine(st, Head(ls)), Tail(ls))

\* _parse_config_lines(ls): the final locals; error # "none" when it raised
_parse_config_lines(ls) ==
    LET st == ParseLoop(ParseStart, ls)
    IN  IF st.error # "none" THEN st ELSE ParseEnd(st)

-----------------------------------------------------------------------------
(* _traverse, _dump_config, dump_config (utils.py) and __eq__ (configdot.py) *)

RECURSIVE TraverseItems_PostOrder(_, _)
\* variant: the entries of a section are yielded before the section itself
TraverseItems_PostOrder(h, items) ==
    IF items = <<>> THEN <<>>
    ELSE
        LET name == Head(items).key
            item == Head(items).ref
            sub == IF h[item].kind = "Container" THEN TraverseItems_PostOrder(h, h[item].items)
                   ELSE <<>>
        IN  [i \in 1..Len(sub) |->
                    [name |-> name \o <<".">> \o sub[i].name, item |-> sub[i].item]]
            \o <<[name |-> name, item |-> item]>>
            \o TraverseItems_PostOrder(h, Tail(items))

RECURSIVE TraverseItems(_, _)
\* the loop of _traverse over the (name, item) pairs of a container
TraverseItems(h, items) ==
    IF items = <<>> THEN <<>>
    ELSE
        LET name == Head(items).key
            item == Head(items).ref
            sub == IF h[item].kind = "Container" THEN TraverseItems(h, h[item].items)
                   ELSE <<>>
        IN  <<[name |-> name, item |-> item]>>
            \o [i \in 1..Len(sub) |->
                    [name |-> name \o <<".">> \o sub[i].name, item |-> sub[i].item]]
            \o TraverseItems(h, Tail(items))

\* list(_traverse(container)): (qualified name, object) pairs in pre-order
_traverse(h, container) == TraverseItems(h, h[container].items)

\* ConfigItem.item_def
item_def(h, item) == h[item].name \o <<" ", "=", " ">> \o pformat(h[item].value)

\* the lines _dump_config yields for one (attr, item_or_section) pair
DumpEntry(h, attr, item_or_section) ==
    LET parts == Split(attr, ".")
        name == parts[Len(parts)]
        comment == h[item_or_section].comment
        comment_split == Split(comment, "\n")
        comment_part == IF comment # <<>>
                        THEN [i \in 1..Len(comment_split) |-> <<"#", " ">> \o comment_split[i]]
                        ELSE <<>>
        level == Count(attr, ".") + 1
    IN  comment_part \o
        (IF h[item_or_section].kind = "Container"
         THEN <<Repeat("[", level) \o name \o Repeat("]", level)>>
         ELSE <<item_def(h, item_or_section)>>)

RECURSIVE DumpEntries(_, _)
DumpEntries(h, pairs) ==
    IF pairs = <<>> THEN <<>>
    ELSE DumpEntry(h, Head(pairs).name, Head(pairs).item) \o DumpEntries(h, Tail(pairs))

\* list(_dump_config(cfg))
_dump_config(h, cfg) == DumpEntries(h, _traverse(h, cfg))

\* dump_config(cfg): one string
dump_config(h, cfg) == Join(_dump_config(h, cfg), <<"\n">>)

RECURSIVE ObjEq(_, _, _, _)
RECURSIVE DictEq(_, _, _, _)
\* a == b for objects a of heap ha and b of heap hb: "T", "F", or "E" when the
\* comparison raises AttributeError (an Item compared with a Container; no
\* section of the model is named 'value', so other.value finds nothing)
ObjEq(ha, a, hb, b) ==
    IF ha[a].kind # hb[b].kind THEN "E"
    ELSE IF ha[a].kind = "Item"
    THEN IF ha[a].value = hb[b].value /\ ha[a].comment = hb[b].comment THEN "T" ELSE "F"
    ELSE
        LET r == IF Len(ha[a].items) # Len(hb[b].items) THEN "F"
                 ELSE DictEq(ha, ha[a].items, hb, hb[b].items)
        IN  IF r # "T" THEN r
            ELSE IF ha[a].comment = hb[b].comment THEN "T" ELSE "F"

\* dict equality: the keys of da in order, each looked up in db
DictEq(ha, da, hb, db) ==
    IF da = <<>> THEN "T"
    ELSE IF ~DictHas(db, Head(da).key) THEN "F"
    ELSE
        LET r == ObjEq(ha, Head(da).ref, hb, DictGet(db, Head(da).key))
        IN  IF r # "T" THEN r ELSE DictEq(ha, Tail(da), hb, db)


-----------------------------------------------------------------------------
(* update_config (utils.py).  A lookup result is ok with the object found, *)
(* or the exception the lookup raises.                                     *)

Found(ref) == [res |-> "ok", ref |-> ref]
KeyError == [res |-> "KeyError", ref |-> 0]
TypeError == [res |-> "TypeError", ref |-> 0]

RECURSIVE _get_attr_by_name(_, _, _)
\* cfg[name_list[0]][name_list[1]]...: a ConfigItem is not subscriptable
\* (TypeError), a missing key of a container raises KeyError
_get_attr_by_name(h, cfg, name_list) ==
    IF h[cfg].kind # "Container" THEN TypeError
    ELSE IF ~DictHas(h[cfg].items, Head(name_list)) THEN KeyError
    ELSE
        LET attr0 == DictGet(h[cfg].items, Head(name_list))
        IN  IF Len(name_list) > 1 THEN _get_attr_by_name(h, attr0, Tail(name_list))
            ELSE Found(attr0)

\* variant: the argument check is missing
ValidCreateNewItems_Unchecked(create_new_items) == TRUE

\* isinstance(create_new_items, bool) or isinstance(create_new_items, list)
ValidCreateNewItems(create_new_items) == create_new_items.kind \in {"bool", "list"}

\* the first try block: the parent section of the entry in the config to update
FindParent(h, cfg, parent_name) ==
    IF parent_name # <<>> THEN _get_attr_by_name(h, cfg, parent_name) ELSE Found(cfg)

\* variant: an existing item is replaced by the item object of the source
UpdateExisting_Shared(h, parent, item_name, item_to_update, item_new, update_comments) ==
    IF h[item_new].kind = "Container"
    THEN IF update_comments
         THEN [h EXCEPT ![item_to_update].comment = h[item_new].comment]
         ELSE h
    ELSE __setattr__object(h, parent, item_name, item_new)

\* the entry exists in the config to update: a section keeps its contents and
\* may take the new comment, an item is replaced by a new ConfigItem
UpdateExisting(h, parent, item_name, item_to_update, item_new, update_comments) ==
    IF h[item_new].kind = "Container"
    THEN IF update_comments
         THEN [h EXCEPT ![item_to_update].comment = h[item_new].comment]
         ELSE h
    ELSE
        LET comment == IF update_comments THEN h[item_new].comment
                       ELSE h[item_to_update].comment
            item_updated == Len(h) + 1
            h1 == Append(h, ConfigItem(h[item_new].name, h[item_new].value, comment))
        IN  __setattr__object(h1, parent, item_name, item_updated)

\* variant: any bool allows creation (isinstance(..., bool) instead of "is True")
MayCreateItem_AnyBool(create_new_items, parent_name) ==
    \/ create_new_items.kind = "bool"
    \/ create_new_items.kind = "list" /\ Join(parent_name, <<".">>) \in create_new_items.l

\* create_new_items is True, or it is a list that holds the parent's dotted name
MayCreateItem(create_new_items, parent_name) ==
    \/ create_new_items.kind = "bool" /\ create_new_items.b
    \/ create_new_items.kind = "list" /\ Join(parent_name, <<".">>) \in create_new_items.l

\* variant: new sections are never created
CreateNew_ItemsOnly(h, parent, parent_name, item_name, item_new, create_new_sections, create_new_items) ==
    IF h[item_new].kind = "Item" /\ MayCreateItem(create_new_items, parent_name)
    THEN
        LET new == Len(h) + 1
            h1 == Append(h, ConfigItem(item_name, h[item_new].value, h[item_new].comment))
        IN  __setattr__object(h1, parent, item_name, new)
    ELSE h

\* variant: new sections are created whatever create_new_sections says
CreateNew_AnySection(h, parent, parent_name, item_name, item_new, create_new_sections, create_new_items) ==
    IF h[item_new].kind = "Container"
    THEN
        LET section == Len(h) + 1
            h1 == Append(h, ConfigContainer(h[item_new].comment))
        IN  __setattr__object(h1, parent, item_name, section)
    ELSE IF h[item_new].kind = "Item" /\ MayCreateItem(create_new_items, parent_name)
    THEN
        LET new == Len(h) + 1
            h1 == Append(h, ConfigItem(item_name, h[item_new].value, h[item_new].comment))
        IN  __setattr__object(h1, parent, item_name, new)
    ELSE h

\* the entry does not exist in the config to update (except KeyError)
CreateNew(h, parent, parent_name, item_name, item_new, create_new_sections, create_new_items) ==
    IF h[item_new].kind = "Container" /\ create_new_sections
    THEN
        LET section == Len(h) + 1
            h1 == Append(h, ConfigContainer(h[item_new].comment))
        IN  __setattr__object(h1, parent, item_name, section)
    ELSE IF h[item_new].kind = "Item" /\ MayCreateItem(create_new_items, parent_name)
    THEN
        LET new == Len(h) + 1
            h1 == Append(h, ConfigItem(item_name, h[item_new].value, h[item_new].comment))
        IN  __setattr__object(h1, parent, item_name, new)
    ELSE h

\* the body of the loop of update_config for one (name, item_new) pair:
\* the heap afterwards, and whether an exception left the loop
UpdateEntry(h, cfg, name, item_new, opts) ==
    LET name_list == Split(name, ".")
        item_name == name_list[Len(name_list)]
        parent_name == SubSeq(name_list, 1, Len(name_list) - 1)
        parent == FindParent(h, cfg, parent_name)
        item_to_update == _get_attr_by_name(h, cfg, name_list)
    IN  IF parent.res = "KeyError" THEN [heap |-> h, raised |-> FALSE]
        ELSE IF parent.res = "TypeError" THEN [heap |-> h, raised |-> TRUE]
        ELSE IF item_to_update.res = "TypeError" THEN [heap |-> h, raised |-> TRUE]
        ELSE IF item_to_update.res = "ok"
        THEN [heap |-> UpdateExisting(h, parent.ref, item_name, item_to_update.ref,
                                      item_new, opts.update_comments),
              raised |-> FALSE]
        ELSE [heap |-> CreateNew(h, parent.ref, parent_name, item_name, item_new,
                                 opts.create_new_sections, opts.create_new_items),
              raised |-> FALSE]

RECURSIVE UpdateLoop_Reversed(_, _, _, _)
\* variant: the pairs are taken from the end of the traversal
UpdateLoop_Reversed(h, cfg, pairs, opts) ==
    IF pairs = <<>> THEN [heap |-> h, outcome |-> "returned"]
    ELSE
        LET last == pairs[Len(pairs)]
            r == UpdateEntry(h, cfg, last.name, last.item, opts)
        IN  IF r.raised THEN [heap |-> r.heap, outcome |-> "TypeError_subscript"]
            ELSE UpdateLoop_Reversed(r.heap, cfg, SubSeq(pairs, 1, Len(pairs) - 1), opts)

RECURSIVE UpdateLoop(_, _, _, _)
\* the loop over _traverse(cfg_new); the source is not written by the loop,
\* so the pairs the generator yields are those of the source at the call
UpdateLoop(h, cfg, pairs, opts) ==
    IF pairs = <<>> THEN [heap |-> h, outcome |-> "returned"]
    ELSE
        LET r == UpdateEntry(h, cfg, Head(pairs).name, Head(pairs).item, opts)
        IN  IF r.raised THEN [heap |-> r.heap, outcome |-> "TypeError_subscript"]
            ELSE UpdateLoop(r.heap, cfg, Tail(pairs), opts)

\* update_config(cfg_to_update, cfg_new, create_new_sections, create_new_items,
\* update_comments)
update_config(h, cfg, new, opts) ==
    IF ~ValidCreateNewItems(opts.create_new_items)
    THEN [heap |-> h, outcome |-> "TypeError_args"]
    ELSE UpdateLoop(h, cfg, _traverse(h, new), opts)

-----------------------------------------------------------------------------
(* Parsing a file line by line, then the write/read cycle of the tests.    *)

MaxLines == 5

InputLines ==
    { <<"[", "a", "]">>,
      <<"[", "b", "]">>,
      <<"[", "[", "a", "]", "]">>,
      <<"[", "[", "b", "]", "]">>,
      <<"[", "[", "a", "]">>,
      <<"[", "[", "[", "a", "]", "]", "]">>,
      <<"#">>,
      <<"#", " ", "c">>,
      <<>>,
      <<"x", " ", "=", " ", "1">>,
      <<"x", " ", "=", " ", "1", "e", "9", "9", "9">>,
      <<"y", "=", " ", "[", "1", ",">>,
      <<" ", "2", "]">>,
      <<"-">> }

\* test_write_read_cycle: dump the config, parse the text again, compare
WriteRead(h, cfg_) ==
    LET txt == dump_config(h, cfg_)
        txtlines == Split(txt, "\n")
        cfg_back == _parse_config_lines(txtlines)
        eq == ObjEq(h, cfg_, cfg_back.heap, cfg_back.config)
    IN  IF cfg_back.error # "none" THEN "ValueError"
        ELSE IF eq = "E" THEN "AttributeError"
        ELSE IF eq = "T" THEN "equal" ELSE "not equal"

NoCall ==
    [create_new_sections |-> FALSE,
     create_new_items |-> [kind |-> "bool", b |-> FALSE, l |-> {}],
     update_comments |-> FALSE]

NoAssign ==
    [self |-> 0, attr |-> <<>>, value |-> "none", before |-> <<>>, obj |-> 0, raised |-> FALSE]

NoAgain == [outcome |-> "idle", before |-> <<>>]

UpdateIdle ==
    /\ assign = NoAssign
    /\ again = NoAgain
    /\ heap = <<>>
    /\ cfg_to_update = 0
    /\ cfg_new = 0
    /\ before = <<>>
    /\ call = NoCall
    /\ outcome = "idle"

Init ==
    /\ pst = ParseStart
    /\ lines = <<>>
    /\ parsed = "running"
    /\ cycle = "none"
    /\ UpdateIdle

\* the loop of _parse_config_lines takes the next line
ReadLine(li) ==
    /\ parsed = "running"
    /\ Len(lines) < MaxLines
    /\ pst' = ParseLine(pst, li)
    /\ lines' = Append(lines, li)
    /\ parsed' = IF pst'.error # "none" THEN "raised" ELSE "running"
    /\ UNCHANGED <<cycle, updateVars>>

\* the lines are exhausted: _parse_config_lines raises or returns config
EndOfInput ==
    /\ parsed = "running"
    /\ pst' = ParseEnd(pst)
    /\ parsed' = IF pst'.error # "none" THEN "raised" ELSE "returned"
    /\ UNCHANGED <<lines, cycle, updateVars>>

\* the returned config is dumped and parsed back
WriteReadCycle ==
    /\ parsed = "returned"
    /\ cycle = "none"
    /\ cycle' = WriteRead(pst.heap, pst.config)
    /\ UNCHANGED <<pst, lines, parsed, updateVars>>

Next ==
    \/ \E li \in InputLines : ReadLine(li)
    \/ EndOfInput
    \/ WriteReadCycle

Spec == Init /\ [][Next]_vars


-----------------------------------------------------------------------------
(* Merging one config into another.  The two configs are built with        *)
(* ConfigContainer() and setattr, entry by entry, before the call.         *)

MaxTargetNodes == 2
MaxSourceNodes == 3

Keys == {<<"a">>, <<"b">>}

RECURSIVE Size(_)
\* number of entries of a forest, at every depth
Size(f) == IF f = <<>> THEN 0 ELSE 1 + Size(Head(f).sub) + Size(Tail(f))

RECURSIVE Forests(_)
\* the entry lists (in insertion order, keys distinct in a container) of at most n entries
Forests(n) ==
    IF n = 0 THEN {<<>>}
    ELSE {<<>>}
         \cup { <<[key |-> k, kind |-> "Item", sub |-> <<>>]>> \o rest :
                    k \in Keys, rest \in Forests(n - 1) }
         \cup UNION { { <<[key |-> k, kind |-> "Container", sub |-> s]>> \o rest :
                            rest \in Forests(n - 1 - Size(s)) } :
                      k \in Keys, s \in Forests(n - 1) }

DistinctKeys(f) == \A i, j \in 1..Len(f) : i # j => f[i].key # f[j].key

RECURSIVE WellFormed(_)
WellFormed(f) ==
    /\ DistinctKeys(f)
    /\ \A i \in 1..Len(f) : WellFormed(f[i].sub)

RECURSIVE Build(_, _, _, _, _)
\* setattr(parent, key, ConfigItem(key, value, comment)) or
\* setattr(parent, key, ConfigContainer(comment=comment)) for the entries of f, in order
Build(h, parent, f, value, comment) ==
    IF f = <<>> THEN h
    ELSE
        LET e == Head(f)
            ref == Len(h) + 1
            node == IF e.kind = "Item" THEN ConfigItem(e.key, value, comment)
                    ELSE ConfigContainer(comment)
            h1 == __setattr__object(Append(h, node), parent, e.key, ref)
            h2 == IF e.kind = "Container" THEN Build(h1, ref, e.sub, value, comment) ELSE h1
        IN  Build(h2, parent, Tail(f), value, comment)

\* the values of create_new_items: True, False, ['a'], ['', 'a.b'], and a
\* value that is neither a bool nor a list
CreateNewItemsChoices ==
    { [kind |-> "bool", b |-> TRUE, l |-> {}],
      [kind |-> "bool", b |-> FALSE, l |-> {}],
      [kind |-> "list", b |-> FALSE, l |-> {<<"a">>}],
      [kind |-> "list", b |-> FALSE, l |-> {<<>>, <<"a", ".", "b">>}],
      [kind |-> "other", b |-> FALSE, l |-> {}] }

Options ==
    [create_new_sections : BOOLEAN,
     create_new_items : CreateNewItemsChoices,
     update_comments : BOOLEAN]

InitUpdate ==
    /\ pst = ParseStart
    /\ lines = <<>>
    /\ parsed = "idle"
    /\ cycle = "none"
    /\ \E tf \in {f \in Forests(MaxTargetNodes) : WellFormed(f)},
          sf \in {f \in Forests(MaxSourceNodes) : WellFormed(f)} :
            heap = Build(Build(<<ConfigContainer(<<>>), ConfigContainer(<<>>)>>,
                               1, tf, "int1", <<"o">>),
                         2, sf, "int2", <<"n">>)
    /\ cfg_to_update = 1
    /\ cfg_new = 2
    /\ before = <<>>
    /\ call = NoCall
    /\ outcome = "idle"
    /\ assign = NoAssign
    /\ again = NoAgain

\* update_config(cfg_to_update, cfg_new, ...) is called
UpdateConfig(opts) ==
    /\ outcome = "idle"
    /\ assign = NoAssign
    /\ cfg_to_update # 0
    /\ \E r \in {update_config(heap, cfg_to_update, cfg_new, opts)} :
        /\ heap' = r.heap
        /\ outcome' = r.outcome
    /\ before' = heap
    /\ call' = opts
    /\ UNCHANGED <<cfg_to_update, cfg_new, assign, again, parseVars>>

NextUpdate == \E opts \in Options : UpdateConfig(opts)

SpecUpdate == InitUpdate /\ [][NextUpdate]_vars

-----------------------------------------------------------------------------
(* Attribute assignment on the sections of a config, before or after a     *)
(* merge: section.attr = value, and section._comment = text.               *)

MaxAssignNodes == 3

AssignValues == {"int2", "list12"}
CommentTexts == {<<"c">>}

RECURSIVE Subtree(_, _)
\* the references of an object and of everything that attribute access
\* reaches from it
Subtree(h, ref) ==
    {ref} \cup UNION {Subtree(h, h[ref].items[i].ref) : i \in 1..Len(h[ref].items)}

\* an item named '_comment', as the line "_comment = 1" of a file defines it
CommentNamedItem == <<[key |-> CommentAttr, kind |-> "Item", sub |-> <<>>]>>

\* as InitUpdate, with at most MaxAssignNodes entries in the two configs
\* together, and possibly an item named '_comment' in the config to update
InitAssign ==
    /\ pst = ParseStart
    /\ lines = <<>>
    /\ parsed = "idle"
    /\ cycle = "none"
    /\ \E tf \in {f \in Forests(MaxAssignNodes) : WellFormed(f)} :
        \E sf \in {f \in Forests(MaxAssignNodes - Size(tf)) : WellFormed(f)} :
        \E extra \in {<<>>, CommentNamedItem} :
            heap = Build(Build(<<ConfigContainer(<<>>), ConfigContainer(<<>>)>>,
                               1, tf \o extra, "int1", <<"o">>),
                         2, sf, "int2", <<"n">>)
    /\ cfg_to_update = 1
    /\ cfg_new = 2
    /\ before = <<>>
    /\ call = NoCall
    /\ outcome = "idle"
    /\ assign = NoAssign
    /\ again = NoAgain

\* setattr(self, attr, value) on a section self of the config to update (or on
\* its root), with a value that is not a ConfigItem or a ConfigContainer
SetAttr(self, attr, value) ==
    /\ assign = NoAssign
    /\ cfg_to_update # 0
    /\ self \in Subtree(heap, cfg_to_update)
    /\ heap[self].kind = "Container"
    /\ heap' = __setattr__(heap, self, attr, value)
    /\ assign' = [self |-> self, attr |-> attr, value |-> value, before |-> heap,
                  obj |-> 0, raised |-> FALSE]
    /\ UNCHANGED <<cfg_to_update, cfg_new, before, call, outcome, again, parseVars>>

\* setattr(self, attr, value) with value a ConfigItem or a ConfigContainer just
\* constructed (ci = ConfigItem('bar', ...); cc.bar = ci): the method stores the
\* object and has no statement that raises
SetAttrObject(self, attr, value) ==
    /\ assign = NoAssign
    /\ cfg_to_update # 0
    /\ self \in Subtree(heap, cfg_to_update)
    /\ heap[self].kind = "Container"
    /\ heap' = __setattr__object(Append(heap, value), self, attr, Len(heap) + 1)
    /\ assign' = [self |-> self, attr |-> attr, value |-> value.value, before |-> heap,
                  obj |-> Len(heap) + 1, raised |-> FALSE]
    /\ UNCHANGED <<cfg_to_update, cfg_new, before, call, outcome, again, parseVars>>

NextAssign ==
    \/ \E opts \in Options : UpdateConfig(opts)
    \/ \E self \in 1..Len(heap), attr \in Keys, value \in AssignValues :
            SetAttr(self, attr, value)
    \/ \E self \in 1..Len(heap), text \in CommentTexts : SetAttr(self, CommentAttr, text)
    \/ \E self \in 1..Len(heap), attr \in Keys, name \in Keys :
            SetAttrObject(self, attr, ConfigItem(name, "int2", <<"t">>))
    \/ \E self \in 1..Len(heap), attr \in Keys :
            SetAttrObject(self, attr, ConfigContainer(<<"t">>))

SpecAssign == InitAssign /\ [][NextAssign]_vars

-----------------------------------------------------------------------------
(* Merging the same config twice: update_config is called again with the    *)
(* same arguments after it has returned.                                    *)

\* update_config(cfg_to_update, cfg_new, ...) is called a second time, with the
\* arguments of the first call
UpdateConfigAgain ==
    /\ outcome = "returned"
    /\ again = NoAgain
    /\ assign = NoAssign
    /\ \E r \in {update_config(heap, cfg_to_update, cfg_new, call)} :
        /\ heap' = r.heap
        /\ again' = [outcome |-> r.outcome, before |-> heap]
    /\ UNCHANGED <<cfg_to_update, cfg_new, before, call, outcome, assign, parseVars>>

NextTwice ==
    \/ \E opts \in Options : UpdateConfig(opts)
    \/ UpdateConfigAgain

SpecTwice == InitAssign /\ [][NextTwice]_vars


-----------------------------------------------------------------------------
(* Properties *)

\* the qualified names (as lists of names) of the entries under root
Names(h, root) ==
    LET pairs == _traverse(h, root)
    IN  {Split(pairs[i].name, ".") : i \in 1..Len(pairs)}

Exists(h, root, name_list) == _get_attr_by_name(h, root, name_list).res = "ok"

KindAt(h, root, name_list) ==
    LET r == _get_attr_by_name(h, root, name_list)
    IN  IF r.res = "ok" THEN h[r.ref].kind ELSE "absent"

NodeAt(h, root, name_list) == h[_get_attr_by_name(h, root, name_list).ref]

IsItem(h, root, name_list) == KindAt(h, root, name_list) = "Item"
IsContainer(h, root, name_list) == KindAt(h, root, name_list) = "Container"

ParentOf(name_list) == SubSeq(name_list, 1, Len(name_list) - 1)

\* the root, or a section
ResolvesToSection(h, root, name_list) ==
    name_list = <<>> \/ IsContainer(h, root, name_list)

Called == outcome # "idle"
ValidCall == Called /\ call.create_new_items.kind \in {"bool", "list"}

\* the entries of the source at the call: qualified name and object
SourceEntries ==
    LET pairs == _traverse(before, cfg_new)
    IN  {[name_list |-> Split(pairs[i].name, "."), item |-> pairs[i].item] :
            i \in 1..Len(pairs)}

\* no qualified name is an Item in one config and a Container in the other
NoKindConflict ==
    \A e \in SourceEntries :
        KindAt(before, cfg_to_update, e.name_list) \in {"absent", before[e.item].kind}

\* C1: for every tree the parser returns, parsing the lines of its dump succeeds
\* and gives a tree equal to it.
C1_RoundTrip == cycle # "none" => cycle = "equal"

\* C2: after update_config, every Item of the source whose qualified name names
\* an Item of the target holds the source's value in the target, whatever the
\* (valid) options are.
C2_ExistingItemsUpdated ==
    ValidCall =>
        \A e \in SourceEntries :
            (before[e.item].kind = "Item" /\ IsItem(before, cfg_to_update, e.name_list))
            => /\ IsItem(heap, cfg_to_update, e.name_list)
               /\ NodeAt(heap, cfg_to_update, e.name_list).value = before[e.item].value

\* C3: with create_new_sections=True and create_new_items=True, and no name that
\* is an Item in one config and a Container in the other, update_config returns
\* and every qualified name of the source exists in the target with the same
\* kind, every Item with the source's value (new sections of any depth included).
C3_EverythingCreated ==
    ( /\ Called
      /\ call.create_new_sections
      /\ call.create_new_items = [kind |-> "bool", b |-> TRUE, l |-> {}]
      /\ NoKindConflict )
    => /\ outcome = "returned"
       /\ \A e \in SourceEntries :
            /\ KindAt(heap, cfg_to_update, e.name_list) = before[e.item].kind
            /\ before[e.item].kind = "Item"
               => NodeAt(heap, cfg_to_update, e.name_list).value = before[e.item].value

\* C3 witness: a new section, its new subsection and the item inside it were created
C3_Witness ==
    /\ outcome = "returned"
    /\ call.create_new_sections
    /\ call.create_new_items = [kind |-> "bool", b |-> TRUE, l |-> {}]
    /\ NoKindConflict
    /\ \E e \in SourceEntries :
        /\ Len(e.name_list) = 3
        /\ before[e.item].kind = "Item"
        /\ ~Exists(before, cfg_to_update, SubSeq(e.name_list, 1, 1))
        /\ IsContainer(heap, cfg_to_update, SubSeq(e.name_list, 1, 1))
        /\ IsContainer(heap, cfg_to_update, SubSeq(e.name_list, 1, 2))
        /\ IsItem(heap, cfg_to_update, e.name_list)

\* C4: with create_new_sections=False no section is created: the sections of the
\* target after the merge are among those before it, and no source entry whose
\* parent section is missing from the target appears in the target.
C4_NoNewSections ==
    (Called /\ ~call.create_new_sections)
    => /\ {n \in Names(heap, cfg_to_update) : IsContainer(heap, cfg_to_update, n)}
            \subseteq {n \in Names(before, cfg_to_update) : IsContainer(before, cfg_to_update, n)}
       /\ \A e \in SourceEntries :
            ~ResolvesToSection(before, cfg_to_update, ParentOf(e.name_list))
            => ~Exists(heap, cfg_to_update, e.name_list)

\* C4 witness: the merge returned, the source had a section missing from the
\* target with an item in it, items could be created, and the target changed
C4_Witness ==
    /\ outcome = "returned"
    /\ ~call.create_new_sections
    /\ call.create_new_items = [kind |-> "bool", b |-> TRUE, l |-> {}]
    /\ heap # before
    /\ \E e \in SourceEntries :
        /\ Len(e.name_list) = 2
        /\ before[e.item].kind = "Item"
        /\ KindAt(before, cfg_to_update, ParentOf(e.name_list)) = "absent"
        /\ ~Exists(heap, cfg_to_update, ParentOf(e.name_list))

\* C5: with create_new_items=False no item is created: every name of an Item of
\* the target after the merge named an entry of the target before it, also
\* inside sections the merge created.
C5_NoNewItems ==
    (Called /\ call.create_new_items = [kind |-> "bool", b |-> FALSE, l |-> {}])
    => \A n \in Names(heap, cfg_to_update) :
            IsItem(heap, cfg_to_update, n) => Exists(before, cfg_to_update, n)

\* C5 witness: the merge created a section for which the source has an item,
\* and the section is empty
C5_Witness ==
    /\ outcome = "returned"
    /\ call.create_new_sections
    /\ call.create_new_items = [kind |-> "bool", b |-> FALSE, l |-> {}]
    /\ \E e \in SourceEntries :
        /\ Len(e.name_list) = 2
        /\ before[e.item].kind = "Item"
        /\ ~Exists(before, cfg_to_update, ParentOf(e.name_list))
        /\ IsContainer(heap, cfg_to_update, ParentOf(e.name_list))
        /\ NodeAt(heap, cfg_to_update, ParentOf(e.name_list)).items = <<>>

\* C6: when create_new_items is a list L, an Item of the source that is absent
\* from the target is created (with the source's value and comment) if and only
\* if its parent section resolves in the target and the parent's dotted path is
\* in L.
C6_ListCreatesIff ==
    (Called /\ call.create_new_items.kind = "list")
    => \A e \in SourceEntries :
        (before[e.item].kind = "Item" /\ ~Exists(before, cfg_to_update, e.name_list))
        => ( ( /\ IsItem(heap, cfg_to_update, e.name_list)
               /\ NodeAt(heap, cfg_to_update, e.name_list).value = before[e.item].value
               /\ NodeAt(heap, cfg_to_update, e.name_list).comment = before[e.item].comment )
             <=>
             ( /\ ResolvesToSection(heap, cfg_to_update, ParentOf(e.name_list))
               /\ Join(ParentOf(e.name_list), <<".">>) \in call.create_new_items.l ) )

\* C7: for every Item present in both configs, the target Item's comment after
\* the merge is its comment from before when update_comments is False, and the
\* source Item's comment when update_comments is True.
C7_ItemComments ==
    ValidCall =>
        \A e \in SourceEntries :
            (before[e.item].kind = "Item" /\ IsItem(before, cfg_to_update, e.name_list))
            => /\ IsItem(heap, cfg_to_update, e.name_list)
               /\ NodeAt(heap, cfg_to_update, e.name_list).comment =
                    IF call.update_comments THEN before[e.item].comment
                    ELSE NodeAt(before, cfg_to_update, e.name_list).comment

\* C8: a section present in both configs stays the same object in the target,
\* its entries that the source does not name are unchanged, and its comment is
\* the source's if update_comments is True and its own otherwise.
C8_SectionsKept ==
    ValidCall =>
        \A e \in SourceEntries :
            (before[e.item].kind = "Container" /\ IsContainer(before, cfg_to_update, e.name_list))
            => LET old == _get_attr_by_name(before, cfg_to_update, e.name_list).ref
               IN  /\ _get_attr_by_name(heap, cfg_to_update, e.name_list) = Found(old)
                   /\ heap[old].comment =
                        IF call.update_comments THEN before[e.item].comment
                        ELSE before[old].comment
                   /\ \A i \in 1..Len(before[old].items) :
                        LET entry == before[old].items[i]
                        IN  ~Exists(before, cfg_new, Append(e.name_list, entry.key))
                            => /\ i <= Len(heap[old].items)
                               /\ heap[old].items[i] = entry
                               /\ \A r \in Subtree(before, entry.ref) : heap[r] = before[r]

\* C9: with valid options update_config never raises, whatever the two configs.
C9_NeverRaises == ValidCall => outcome = "returned"

\* C10: when create_new_items is neither a bool nor a list, update_config raises
\* TypeError before it visits any source entry, and the target is unchanged.
C10_InvalidArgument ==
    (Called /\ call.create_new_items.kind = "other")
    => (outcome = "TypeError_args" /\ heap = before)

\* C10 witness: the call was refused although the source has an item that the
\* target also has, which a merge would have replaced
C10_Witness ==
    /\ outcome = "TypeError_args"
    /\ call.create_new_items.kind = "other"
    /\ \E e \in SourceEntries :
        before[e.item].kind = "Item" /\ IsItem(before, cfg_to_update, e.name_list)

\* C11: update_config leaves the source as it was before the merge, and after the
\* merge no Item or Container of the target is an object of the source; both
\* still hold after a later attribute assignment on a section of the target.
C11_SourceReadOnly ==
    Called =>
        /\ Subtree(heap, cfg_new) = Subtree(before, cfg_new)
        /\ \A r \in Subtree(before, cfg_new) : heap[r] = before[r]
        /\ Subtree(heap, cfg_to_update) \cap Subtree(heap, cfg_new) = {}

\* C11 witness: the merge replaced an item of the target by the source's data,
\* then an assignment on the target changed that item's value, and the source's
\* item still holds its own value
C11_Witness ==
    /\ outcome = "returned"
    /\ assign.self # 0
    /\ \E e \in SourceEntries :
        /\ before[e.item].kind = "Item"
        /\ IsItem(before, cfg_to_update, e.name_list)
        /\ IsItem(assign.before, cfg_to_update, e.name_list)
        /\ NodeAt(assign.before, cfg_to_update, e.name_list).value = before[e.item].value
        /\ before[e.item].value # assign.value
        /\ NodeAt(heap, cfg_to_update, e.name_list).value = assign.value
        /\ heap[e.item].value = before[e.item].value

\* The class of a line, in the order in which the loop of _parse_config_lines
\* tries the patterns.
IsHeader(li) == _parse_section_header(li).ok
IsComment(li) == ~IsHeader(li) /\ RE_COMMENT(li).ok
IsBlank(li) == ~IsHeader(li) /\ ~IsComment(li) /\ RE_WHITESPACE(li)
IsItemDef(li) == ~IsHeader(li) /\ ~IsComment(li) /\ ~IsBlank(li) /\ _parse_item_def(li).ok
IsOther(li) == ~IsHeader(li) /\ ~IsComment(li) /\ ~IsBlank(li) /\ ~IsItemDef(li)

\* a definition is pending in the parser state st
Pending(st) == st.current_item_name # <<>>

\* the step reads one more line; NewLine is that line, NewLnum its 1-based number
LineRead == parsed = "running" /\ Len(lines') = Len(lines) + 1
NewLine == lines'[Len(lines')]
NewLnum == Len(lines')

\* the step fails at the line it reads, and the tree is as it was
FailsAtNewLine ==
    /\ parsed' = "raised"
    /\ pst'.error # "none"
    /\ pst'.lnum = NewLnum
    /\ pst'.heap = pst.heap

\* the name names an Item of the section that is open in the parser state st
NamesOpenItem(st, name) ==
    /\ st.current_section # 0
    /\ DictHas(st.heap[st.current_section].items, name)
    /\ st.heap[DictGet(st.heap[st.current_section].items, name)].kind = "Item"

\* C12: an item-definition line whose name is an item of the section currently
\* open makes parsing fail at that line (with "duplicate definition" when no
\* definition is pending), the tree is not changed and nothing is returned.
C12_DuplicateRejected ==
    [][ (LineRead /\ IsItemDef(NewLine)
         /\ NamesOpenItem(pst, _parse_item_def(NewLine).varname))
        => /\ FailsAtNewLine
           /\ ~Pending(pst) => pst'.error = "duplicate definition" ]_vars

\* C12 witness: the third line or a later one defined again an item that the
\* open section holds, and parsing failed there
C12_Witness ==
    /\ parsed = "raised"
    /\ pst.error = "duplicate definition"
    /\ Len(lines) >= 3
    /\ pst.lnum = Len(lines)
    /\ IsItemDef(lines[Len(lines)])
    /\ NamesOpenItem(pst, _parse_item_def(lines[Len(lines)]).varname)
    /\ literal_eval(_parse_item_def(lines[Len(lines)]).val).value #
            pst.heap[DictGet(pst.heap[pst.current_section].items,
                             _parse_item_def(lines[Len(lines)]).varname)].value

\* C13: an item-definition line with no section header before it makes parsing
\* fail at that line, and the root container of the tree holds only
\* ConfigContainers, at every step of parsing and so in every returned tree.
C13_NoItemOutsideSection ==
    /\ \A k \in 1..Len(lines) :
            (IsItemDef(lines[k]) /\ \A j \in 1..(k - 1) : ~IsHeader(lines[j]))
            => (parsed = "raised" /\ pst.lnum = k /\ k = Len(lines))
    /\ \A i \in 1..Len(pst.heap[pst.config].items) :
            pst.heap[pst.heap[pst.config].items[i].ref].kind = "Container"

\* C13 witness: after a comment and a blank line, an item definition came before
\* any section header and parsing failed there
C13_Witness ==
    /\ parsed = "raised"
    /\ pst.error = "item definition outside of a section"
    /\ Len(lines) = 3
    /\ pst.lnum = 3
    /\ IsComment(lines[1])
    /\ IsBlank(lines[2])
    /\ IsItemDef(lines[3])

\* a header of the level was accepted among the lines ls (the root has level 0)
OpenedLevel(ls, level) ==
    \/ level = 0
    \/ \E j \in 1..Len(ls) : IsHeader(ls[j]) /\ _parse_section_header(ls[j]).sec_level = level

\* C14: a header line with L >= 2 brackets fails at its line when no header of
\* level L-1 was read before it; a header line of level 1 read while no definition
\* is pending is accepted, and the root then has a new section under its name.
C14_HeaderLevels ==
    [][ (LineRead /\ IsHeader(NewLine)) =>
        LET hd == _parse_section_header(NewLine)
        IN  /\ (hd.sec_level >= 2 /\ ~OpenedLevel(lines, hd.sec_level - 1))
                => FailsAtNewLine
            /\ (hd.sec_level = 1 /\ ~Pending(pst))
                => ( /\ parsed' = "running"
                     /\ pst'.error = "none"
                     /\ Len(pst'.heap) = Len(pst.heap) + 1
                     /\ pst'.heap[Len(pst'.heap)].kind = "Container"
                     /\ DictHas(pst'.heap[pst'.config].items, hd.secname)
                     /\ DictGet(pst'.heap[pst'.config].items, hd.secname) = Len(pst'.heap) )
      ]_vars

\* C14 witness: a header of level 3 arrived after headers of level 1 only, and
\* parsing failed at its line
C14_Witness ==
    /\ parsed = "raised"
    /\ pst.error = "subsection outside a parent section"
    /\ Len(lines) >= 2
    /\ pst.lnum = Len(lines)
    /\ IsHeader(lines[Len(lines)])
    /\ _parse_section_header(lines[Len(lines)]).sec_level = 3
    /\ OpenedLevel(SubSeq(lines, 1, Len(lines) - 1), 1)
    /\ ~OpenedLevel(SubSeq(lines, 1, Len(lines) - 1), 2)

\* the levels of the header lines among ls, in order
HeaderLevels(ls) ==
    LET hs == SelectSeq(ls, LAMBDA l : IsHeader(l))
    IN  [i \in 1..Len(hs) |-> _parse_section_header(hs[i]).sec_level]

\* the sections opened so far in the parser state st whose level is the given one
OpenedAt(st, level) == SelectSeq(st.sections, LAMBDA p : p.level = level)

\* the step completes an item definition: the tree has one more object, an Item
ItemAdded ==
    /\ LineRead
    /\ Len(pst'.heap) = Len(pst.heap) + 1
    /\ pst'.heap[Len(pst'.heap)].kind = "Item"

\* C15: the sections opened are those of the header lines, in order; an accepted
\* header of level L makes a new empty section, stored under the header's name in
\* the latest section opened with level L-1 (the root for L = 1) and nowhere
\* else; an item that a step completes is stored, under its name, in the section
\* of the latest header.
C15_ParentResolution ==
    [][ /\ (LineRead /\ parsed' = "running")
            => [i \in 1..Len(pst'.sections) |-> pst'.sections[i].level]
                    = <<0>> \o HeaderLevels(lines')
        /\ (LineRead /\ IsHeader(NewLine) /\ parsed' = "running")
            => LET hd == _parse_section_header(NewLine)
                   above == OpenedAt(pst, hd.sec_level - 1)
                   parent == above[Len(above)].sec
                   new == Len(pst.heap) + 1
               IN  /\ Len(above) > 0
                   /\ Len(pst'.heap) = new
                   /\ pst'.heap[new].kind = "Container"
                   /\ pst'.heap[new].items = <<>>
                   /\ pst'.sections[Len(pst'.sections)].sec = new
                   /\ pst'.current_section = new
                   /\ pst'.heap[parent].items = DictSet(pst.heap[parent].items, hd.secname, new)
                   /\ \A r \in 1..Len(pst.heap) : r # parent => pst'.heap[r] = pst.heap[r]
        /\ ItemAdded
            => LET new == Len(pst'.heap)
                   latest == pst.sections[Len(pst.sections)]
               IN  /\ latest.level >= 1
                   /\ pst'.heap[latest.sec].items =
                        DictSet(pst.heap[latest.sec].items, pst'.heap[new].name, new)
                   /\ \A r \in 1..Len(pst.heap) : r # latest.sec => pst'.heap[r] = pst.heap[r]
      ]_vars

\* C15 witness: [a], [[a]], [[b]], [[[a]]], then an item x: a.a and a.b are
\* siblings, the level-3 section is under a.b, and x is inside it
C15_Witness ==
    /\ parsed = "returned"
    /\ Len(lines) = 5
    /\ HeaderLevels(lines) = <<1, 2, 2, 3>>
    /\ IsContainer(pst.heap, pst.config, <<(<<"a">>), (<<"a">>)>>)
    /\ NodeAt(pst.heap, pst.config, <<(<<"a">>), (<<"a">>)>>).items = <<>>
    /\ IsContainer(pst.heap, pst.config, <<(<<"a">>), (<<"b">>), (<<"a">>)>>)
    /\ IsItem(pst.heap, pst.config, <<(<<"a">>), (<<"b">>), (<<"a">>), (<<"x">>)>>)

\* the value text of the definition that starts at line k of ls, up to line m:
\* the text after the equals sign, then the following lines, stripped
ValueText(ls, k, m) ==
    Join(<<_parse_item_def(ls[k]).val>> \o [j \in 1..(m - k) |-> Strip(ls[k + j])], <<>>)

\* the lines read end with a definition of N >= 2 lines that starts at line k:
\* an item-definition line, then lines of no other class, and the value text is
\* a literal with the last line and with no line fewer
MultiLine(k) ==
    /\ k < Len(lines)
    /\ IsItemDef(lines[k])
    /\ \A j \in (k + 1)..Len(lines) : IsOther(lines[j])
    /\ \A m \in k..(Len(lines) - 1) : ~literal_eval(ValueText(lines, k, m)).ok
    /\ literal_eval(ValueText(lines, k, Len(lines))).ok

\* C16: when the lines read end with such a definition, parsing has not failed
\* (nor does it fail at the end of the input), no definition is pending, the open
\* section has the name exactly once, as the newest object of the tree, an Item
\* with the literal's value, and the tree has one object per header and per item
\* definition read.
C16_MultiLineValue ==
    \A k \in 1..Len(lines) :
        MultiLine(k) =>
            LET name == _parse_item_def(lines[k]).varname
                items == pst.heap[pst.current_section].items
            IN  /\ parsed \in {"running", "returned"}
                /\ pst.error = "none"
                /\ ~Pending(pst)
                /\ pst.current_def_lines = <<>>
                /\ NamesOpenItem(pst, name)
                /\ Cardinality({i \in 1..Len(items) : items[i].key = name}) = 1
                /\ DictGet(items, name) = Len(pst.heap)
                /\ pst.heap[Len(pst.heap)].name = name
                /\ pst.heap[Len(pst.heap)].value =
                        literal_eval(ValueText(lines, k, Len(lines))).value
                /\ Len(pst.heap) =
                        1 + Len(SelectSeq(lines, LAMBDA l : IsHeader(l) \/ IsItemDef(l)))

\* C16 witness: a value of three lines whose last line is the last line of the
\* input was parsed and the tree was returned
C16_Witness ==
    /\ parsed = "returned"
    /\ Len(lines) >= 4
    /\ MultiLine(Len(lines) - 2)
    /\ pst.heap[Len(pst.heap)].value = "list1m2"

\* the step is the end of the input: no line is read and parsing ends
InputEnds == parsed = "running" /\ lines' = lines /\ parsed' # "running"

\* C17: while a definition is pending, a line of the header, comment, blank or
\* item-definition class makes parsing fail at that line, with the pending text
\* and the tree as they were; a line of no such class is appended (stripped) to
\* the pending text or completes the definition, and never fails; the end of the
\* input fails.
C17_PendingDefinition ==
    [][ Pending(pst) =>
        /\ (LineRead /\ ~IsOther(NewLine))
            => ( /\ FailsAtNewLine
                 /\ pst'.error = "could not evaluate definition"
                 /\ pst'.current_def_lines = pst.current_def_lines
                 /\ pst'.current_item_name = pst.current_item_name )
        /\ (LineRead /\ IsOther(NewLine))
            => ( /\ parsed' = "running"
                 /\ \/ ( /\ Pending(pst')
                          /\ pst'.current_def_lines =
                                Append(pst.current_def_lines, Strip(NewLine))
                          /\ pst'.heap = pst.heap )
                    \/ ( /\ ~Pending(pst')
                          /\ literal_eval(Join(Append(pst.current_def_lines, Strip(NewLine)),
                                               <<>>)).ok
                          /\ ItemAdded ) )
        /\ InputEnds
            => ( /\ parsed' = "raised"
                 /\ pst'.error = "could not evaluate definition"
                 /\ pst'.heap = pst.heap )
      ]_vars

\* C17 witness: a definition was pending after two lines of value text, and a
\* line of another class made parsing fail
C17_Witness ==
    /\ parsed = "raised"
    /\ pst.error = "could not evaluate definition"
    /\ Pending(pst)
    /\ Len(pst.current_def_lines) = 2
    /\ pst.lnum = Len(lines)
    /\ ~IsOther(lines[Len(lines)])

RECURSIVE CommentsBefore(_, _)
\* the texts of the comment lines of ls just before line k, back to the nearest
\* line that is neither a comment nor blank
CommentsBefore(ls, k) ==
    IF k = 1 THEN <<>>
    ELSE IF IsComment(ls[k - 1])
    THEN Append(CommentsBefore(ls, k - 1), RE_COMMENT(ls[k - 1]).cmnt)
    ELSE IF IsBlank(ls[k - 1]) THEN CommentsBefore(ls, k - 1)
    ELSE <<>>

\* the last line read made an entry of the tree: a header, a definition of one
\* line, or the line that completed a definition of several lines
EntryMade ==
    /\ parsed \in {"running", "returned"}
    /\ Len(lines) >= 1
    /\ ~Pending(pst)
    /\ ~IsComment(lines[Len(lines)])
    /\ ~IsBlank(lines[Len(lines)])

\* the line at which that entry starts: the header or the item-definition line
EntryStart ==
    IF IsOther(lines[Len(lines)])
    THEN CHOOSE k \in 1..Len(lines) :
            IsItemDef(lines[k]) /\ \A j \in (k + 1)..Len(lines) : IsOther(lines[j])
    ELSE Len(lines)

\* C18: the comment of an entry, when the parser has just made it, is the
\* newline-join of the comment lines read since the previous header or completed
\* definition, whether its value took one line or several.
C18_CommentAttachment ==
    EntryMade =>
        pst.heap[Len(pst.heap)].comment = Join(CommentsBefore(lines, EntryStart), <<"\n">>)

\* a line in brackets whose opening and closing bracket counts differ
UnbalancedHeader(li) ==
    LET s == Strip(li)
    IN  /\ Len(s) >= 3
        /\ s[1] = "["
        /\ s[Len(s)] = "]"
        /\ Count(s, "[") # Count(s, "]")

\* C19: with no definition pending, a line of none of the four classes, and in
\* particular a bracketed line with differing bracket counts, makes parsing fail
\* with a syntax error that carries the 1-based number of the line and the line
\* as it was read; the tree is as it was and nothing is returned.
C19_SyntaxError ==
    [][ (LineRead /\ ~Pending(pst) /\ (IsOther(NewLine) \/ UnbalancedHeader(NewLine)))
        => ( /\ FailsAtNewLine
             /\ pst'.error = "syntax error"
             /\ pst'.li = NewLine )
      ]_vars

\* C19 witness: after an accepted header, a bracketed line with two opening
\* brackets and one closing bracket was refused as a syntax error
C19_Witness ==
    /\ parsed = "raised"
    /\ pst.error = "syntax error"
    /\ Len(lines) >= 2
    /\ pst.lnum = Len(lines)
    /\ pst.li = lines[Len(lines)]
    /\ UnbalancedHeader(lines[Len(lines)])
    /\ IsHeader(lines[1])

\* C20: after section.attr = value with a raw value: when attr named an Item of
\* the section, that Item has the value and nothing else in the tree differs
\* (its comment and name included); when the section had no entry attr, it has
\* one more entry, last, a new Item named attr with the value and an empty
\* comment, and nothing else differs.
C20_RawAssignment ==
    (assign.self # 0 /\ assign.obj = 0) =>
        LET h0 == assign.before
            items0 == h0[assign.self].items
            item == DictGet(items0, assign.attr)
            new == Len(h0) + 1
        IN  /\ (DictHas(items0, assign.attr) /\ h0[item].kind = "Item")
                => ( /\ Len(heap) = Len(h0)
                     /\ \A r \in 1..Len(h0) : r # item => heap[r] = h0[r]
                     /\ heap[item] = [h0[item] EXCEPT !.value = assign.value] )
            /\ ~DictHas(items0, assign.attr)
                => ( /\ Len(heap) = new
                     /\ \A r \in 1..Len(h0) : r # assign.self => heap[r] = h0[r]
                     /\ heap[assign.self] =
                            [h0[assign.self] EXCEPT
                                !.items = Append(items0, [key |-> assign.attr, ref |-> new])]
                     /\ heap[new] = ConfigItem(assign.attr, assign.value, <<>>) )

\* C21: after section.attr = value with a raw value, when attr named a Container
\* of the section: the entry attr of the section is an Item, and reading the
\* attribute gives the assigned value.
C21_ContainerReplaced ==
    (assign.self # 0 /\ assign.obj = 0 /\ assign.attr # CommentAttr) =>
        LET h0 == assign.before
            items0 == h0[assign.self].items
        IN  (DictHas(items0, assign.attr)
             /\ h0[DictGet(items0, assign.attr)].kind = "Container")
            => LET entry == DictGet(heap[assign.self].items, assign.attr)
               IN  /\ heap[entry].kind = "Item"
                   /\ heap[entry].value = assign.value

\* C22: after section.attr = item with a ConfigItem object: when the item's name
\* differs from attr the assignment failed with an error and the entries of the
\* section are as they were; when the name is attr the section's entry attr is
\* that object.
C22_NameMismatch ==
    (assign.obj # 0 /\ heap[assign.obj].kind = "Item") =>
        IF heap[assign.obj].name # assign.attr
        THEN /\ assign.raised
             /\ heap[assign.self].items = assign.before[assign.self].items
        ELSE /\ ~assign.raised
             /\ DictHas(heap[assign.self].items, assign.attr)
             /\ DictGet(heap[assign.self].items, assign.attr) = assign.obj

\* C27: every Item stored in a Container of the config under key k has name k.
C27_NameIsKey ==
    cfg_to_update # 0 =>
        \A c \in Subtree(heap, cfg_to_update) :
            \A i \in 1..Len(heap[c].items) :
                LET e == heap[c].items[i]
                IN  heap[e.ref].kind = "Item" => heap[e.ref].name = e.key

RECURSIVE SameTree(_, _, _, _)
\* the comparison C23 describes, of object a of heap ha with object b of heap hb:
\* Items by value and comment, Containers by their entry names, their same-named
\* entries and their comments; an Item and a Container are not equal
SameTree(ha, a, hb, b) ==
    IF ha[a].kind # hb[b].kind THEN FALSE
    ELSE IF ha[a].kind = "Item"
    THEN ha[a].value = hb[b].value /\ ha[a].comment = hb[b].comment
    ELSE /\ {ha[a].items[i].key : i \in 1..Len(ha[a].items)}
                = {hb[b].items[i].key : i \in 1..Len(hb[b].items)}
         /\ \A i \in 1..Len(ha[a].items) :
                SameTree(ha, ha[a].items[i].ref, hb, DictGet(hb[b].items, ha[a].items[i].key))
         /\ ha[a].comment = hb[b].comment

\* C23: cfg_to_update == cfg_new returns True when the two trees have the same
\* entry names, equal same-named entries and equal comments, and returns False
\* otherwise; it never raises.
C23_EqualityTotal ==
    cfg_to_update # 0 =>
        ObjEq(heap, cfg_to_update, heap, cfg_new)
            = (IF SameTree(heap, cfg_to_update, heap, cfg_new) THEN "T" ELSE "F")

\* the heap of the config to update before the merge and the assignment
StartHeap ==
    IF Called THEN before ELSE IF assign.self # 0 THEN assign.before ELSE heap

RECURSIVE ParserShaped(_, _, _)
\* a tree as _parse_config_lines returns it: no Item in the root, and in every
\* section the Items before the subsections
ParserShaped(h, c, isRoot) ==
    LET items == h[c].items
    IN  /\ isRoot => \A i \in 1..Len(items) : h[items[i].ref].kind = "Container"
        /\ \A i, j \in 1..Len(items) :
            (i < j /\ h[items[i].ref].kind = "Container") => h[items[j].ref].kind = "Container"
        /\ \A i \in 1..Len(items) :
            h[items[i].ref].kind = "Container" => ParserShaped(h, items[i].ref, FALSE)

\* C24: a config that was parsed, then merged into and assigned to, is
\* reproduced by its dump: parsing the lines of dump_config(cfg) succeeds and the
\* tree it returns is equal to cfg.
C24_DumpReproduces ==
    (cfg_to_update # 0 /\ ParserShaped(StartHeap, cfg_to_update, TRUE))
        => WriteRead(heap, cfg_to_update) = "equal"

\* the Items of a tree
ItemsIn(h) == {r \in 1..Len(h) : h[r].kind = "Item"}

\* C25: while a definition for a name is pending, the section that is open has
\* no entry of that name; the Items of the tree change only by a step that reads
\* a line with which the text of a definition evaluates (the value text of a
\* one-line definition, or the pending text with the stripped line appended), and
\* that step adds exactly one Item, with that name and the evaluated value;
\* after parsing has failed nothing more happens: no tree is returned.
C25_NoPartialItem ==
    [][ /\ Pending(pst') =>
            ~DictHas(pst'.heap[pst'.current_section].items, pst'.current_item_name)
        /\ \A r \in ItemsIn(pst.heap) : r \in ItemsIn(pst'.heap) /\ pst'.heap[r] = pst.heap[r]
        /\ ItemsIn(pst'.heap) # ItemsIn(pst.heap) =>
            LET new == Len(pst'.heap)
                text == IF Pending(pst)
                        THEN Join(Append(pst.current_def_lines, Strip(NewLine)), <<>>)
                        ELSE _parse_item_def(NewLine).val
                name == IF Pending(pst) THEN pst.current_item_name
                        ELSE _parse_item_def(NewLine).varname
            IN  /\ LineRead
                /\ IF Pending(pst) THEN IsOther(NewLine) ELSE IsItemDef(NewLine)
                /\ ItemsIn(pst'.heap) = ItemsIn(pst.heap) \cup {new}
                /\ new = Len(pst.heap) + 1
                /\ literal_eval(text).ok
                /\ pst'.heap[new].value = literal_eval(text).value
                /\ pst'.heap[new].name = name
                /\ ~Pending(pst')
                /\ parsed' = "running"
        /\ parsed = "raised" => FALSE
      ]_vars

\* C25 witness: a definition of two lines was pending with no entry of its name
\* in the open section, and the second line completed it
C25_Witness ==
    /\ parsed = "running"
    /\ Len(lines) = 3
    /\ IsItemDef(lines[2])
    /\ ~literal_eval(_parse_item_def(lines[2]).val).ok
    /\ IsOther(lines[3])
    /\ ~Pending(pst)
    /\ ItemsIn(pst.heap) = {Len(pst.heap)}
    /\ pst.heap[Len(pst.heap)].name = _parse_item_def(lines[2]).varname

\* s begins with p
HasPrefix(s, p) == Len(p) <= Len(s) /\ SubSeq(s, 1, Len(p)) = p

\* the pairs of _traverse(root) are a pre-order of the tree under root
PreOrder(h, root) ==
    LET pairs == _traverse(h, root)
        n == Len(pairs)
    IN  /\ {pairs[i].item : i \in 1..n} = Subtree(h, root) \ {root}
        /\ n = Cardinality(Subtree(h, root) \ {root})
        /\ \A i \in 1..n :
            _get_attr_by_name(h, root, Split(pairs[i].name, ".")) = Found(pairs[i].item)
        /\ \A i, j \in 1..n :
            HasPrefix(pairs[j].name, pairs[i].name \o <<".">>)
                => /\ i < j
                   /\ h[pairs[i].item].kind = "Container"
                   /\ pairs[j].item \in Subtree(h, pairs[i].item)
        /\ \A i, j \in 1..n :
            (i # j /\ pairs[j].item \in Subtree(h, pairs[i].item)) => i < j

\* C26: _traverse yields every Item and Container under the root exactly once,
\* each with the dot-joined name that leads to it from the root, and a Container
\* before everything under it; so after a merge that may create sections and
\* that returned, every section of the source, at every depth, names an entry of
\* the target.
C26_PreOrder ==
    cfg_to_update # 0 =>
        /\ PreOrder(heap, cfg_new)
        /\ PreOrder(heap, cfg_to_update)
        /\ (outcome = "returned" /\ call.create_new_sections)
            => \A e \in SourceEntries :
                before[e.item].kind = "Container" => Exists(heap, cfg_to_update, e.name_list)

\* C26 witness: the source has a section with a subsection, neither was in the
\* target, and the merge created the section and then the subsection inside it
C26_Witness ==
    /\ outcome = "returned"
    /\ call.create_new_sections
    /\ \E e \in SourceEntries :
        /\ Len(e.name_list) = 2
        /\ before[e.item].kind = "Container"
        /\ ~Exists(before, cfg_to_update, ParentOf(e.name_list))
        /\ IsContainer(heap, cfg_to_update, ParentOf(e.name_list))
        /\ IsContainer(heap, cfg_to_update, e.name_list)
    /\ Len(_traverse(heap, cfg_new)) >= 3

\* C28: after update_config with valid options, every qualified name that named
\* an entry of the config to update before the call still names one.
C28_NothingRemoved ==
    ValidCall => \A name_list \in Names(before, cfg_to_update) :
                    Exists(heap, cfg_to_update, name_list)

\* C29: when the parser has returned, the tree has one object for every header
\* line and every item-definition line of the input, and each of them is
\* reached from the root.
C29_DefinitionsSurvive ==
    parsed = "returned" =>
        /\ Len(pst.heap) - 1
            = Cardinality({k \in 1..Len(lines) : IsHeader(lines[k]) \/ IsItemDef(lines[k])})
        /\ Subtree(pst.heap, pst.config) = 1..Len(pst.heap)

\* C30: when update_config has returned and is called again with the same
\* source and options, it returns again and the config to update is equal to
\* what it was after the first call.
C30_Idempotent ==
    again # NoAgain =>
        /\ again.outcome = "returned"
        /\ ObjEq(again.before, cfg_to_update, heap, cfg_to_update) = "T"
        /\ SameTree(again.before, cfg_to_update, heap, cfg_to_update)

\* C30 witness: the first call created a section and an item inside it; the
\* second call has returned, having replaced that item by a new object
C30_Witness ==
    /\ again.outcome = "returned"
    /\ call.create_new_sections
    /\ Len(heap) > Len(again.before)
    /\ \E e \in SourceEntries :
        /\ Len(e.name_list) = 2
        /\ before[e.item].kind = "Item"
        /\ ~Exists(before, cfg_to_update, ParentOf(e.name_list))
        /\ IsItem(again.before, cfg_to_update, e.name_list)
        /\ _get_attr_by_name(heap, cfg_to_update, e.name_list).ref > Len(again.before)

=============================================================================
